---- MODULE Spec2Model ----
(***************************************************************************)
(* Model of neo_hotkeys (src/n.py): the shared store last_captured_text    *)
(* with its lock last_lock, the capture pipeline do_capture_and_store, the *)
(* replay worker do_paste_from_store and the HTTP handler                  *)
(* SimpleImageHandler served by a single-threaded HTTPServer.              *)
(*                                                                         *)
(* A text is a sequence of one-character strings, so that the regular      *)
(* expressions of the normalizer are computed position by position.        *)
(***************************************************************************)
EXTENDS Integers, Sequences, FiniteSets, TLC

----------------------------------------------------------------------------
(* Characters and the character classes the regular expressions use.       *)

Digits == {"0", "1", "2", "3", "4", "5", "6", "7", "8", "9"}

LowerLetters == <<"a", "b", "c", "d", "e", "f", "g", "h", "i", "j", "k", "l", "m",
                  "n", "o", "p", "q", "r", "s", "t", "u", "v", "w", "x", "y", "z">>

UpperLetters == <<"A", "B", "C", "D", "E", "F", "G", "H", "I", "J", "K", "L", "M",
                  "N", "O", "P", "Q", "R", "S", "T", "U", "V", "W", "X", "Y", "Z">>

IsUpper(c) == \E i \in DOMAIN UpperLetters : UpperLetters[i] = c

IsLower(c) == \E i \in DOMAIN LowerLetters : LowerLetters[i] = c

\* re.I: characters are compared after case folding
Fold(c) ==
    IF IsUpper(c)
    THEN LowerLetters[CHOOSE i \in DOMAIN UpperLetters : UpperLetters[i] = c]
    ELSE c

\* [ \t]
IsBlank(c) == c \in {" ", "\t"}

\* \s
IsSpace(c) == c \in {" ", "\t", "\n", "\r", "\f"}

\* \d
IsDigit(c) == c \in Digits

\* \w, the class \b is defined by
IsWord(c) == IsDigit(c) \/ IsLower(c) \/ IsUpper(c) \/ c = "_"

\* text[a..b] as Python's text[a-1:b]; empty when b < a
Slice(text, a, b) == SubSeq(text, a, b)

\* (?m)^ : position p (1-based) starts a line
LineStart(text, p) == p = 1 \/ (p > 1 /\ p - 1 <= Len(text) /\ text[p - 1] = "\n")

\* the position after the run of [ \t]* that starts at p
RECURSIVE SkipBlank(_, _)
SkipBlank(text, p) ==
    IF p <= Len(text) /\ IsBlank(text[p]) THEN SkipBlank(text, p + 1) ELSE p

\* the position after the run of \d* that starts at p
RECURSIVE SkipDigits(_, _)
SkipDigits(text, p) ==
    IF p <= Len(text) /\ IsDigit(text[p]) THEN SkipDigits(text, p + 1) ELSE p

\* the literal word occurs at p; ci is the (?i) flag
LiteralAt(text, p, word, ci) ==
    /\ p + Len(word) - 1 <= Len(text)
    /\ \A k \in 1..Len(word) :
          IF ci THEN Fold(text[p + k - 1]) = Fold(word[k])
                ELSE text[p + k - 1] = word[k]

\* the smallest member of a non-empty set of positions
MinOf(S) == CHOOSE x \in S : \A y \in S : x <= y

\* str.lstrip(chars)
RECURSIVE LStrip(_, _)
LStrip(text, chars) ==
    IF text # <<>> /\ Head(text) \in chars THEN LStrip(Tail(text), chars) ELSE text

\* str.rstrip(chars)
RECURSIVE RStrip(_, _)
RStrip(text, chars) ==
    IF text # <<>> /\ text[Len(text)] \in chars
    THEN RStrip(SubSeq(text, 1, Len(text) - 1), chars)
    ELSE text

\* str.strip(): whitespace removed at both ends
Strip(text) == RStrip(LStrip(text, {" ", "\t", "\n", "\r", "\f"}), {" ", "\t", "\n", "\r", "\f"})

----------------------------------------------------------------------------
(* extract_from_first_numbered                                             *)

\* (?m)^[ \t]*1[\.)]\s*  matches at p
NumberedLineAt(text, p) ==
    LET q == SkipBlank(text, p)
    IN  /\ LineStart(text, p)
        /\ q + 1 <= Len(text)
        /\ text[q] = "1"
        /\ text[q + 1] \in {".", ")"}

\* \b1[\.)]\s+  matches at p
NumberedInTextAt(text, p) ==
    /\ p + 2 <= Len(text)
    /\ text[p] = "1"
    /\ p = 1 \/ ~IsWord(text[p - 1])
    /\ text[p + 1] \in {".", ")"}
    /\ IsSpace(text[p + 2])

\* an extraction that would look for the in-text marker first (what C15 excludes)
ExtractInTextFirst(text) ==
    LET lineHits == {p \in 1..Len(text) : NumberedLineAt(text, p)}
        textHits == {p \in 1..Len(text) : NumberedInTextAt(text, p)}
    IN  IF textHits # {} THEN Slice(text, MinOf(textHits), Len(text))
        ELSE IF lineHits # {} THEN Slice(text, MinOf(lineHits), Len(text))
        ELSE text

extract_from_first_numbered(text) ==
    LET lineHits == {p \in 1..Len(text) : NumberedLineAt(text, p)}
        textHits == {p \in 1..Len(text) : NumberedInTextAt(text, p)}
    IN  IF text = <<>> THEN text
        ELSE IF lineHits # {}
        THEN LStrip(Slice(text, MinOf(lineHits), Len(text)), {"\n", "\r"})
        ELSE IF textHits # {}
        THEN LStrip(Slice(text, MinOf(textHits), Len(text)), {"\n", "\r"})
        ELSE text

----------------------------------------------------------------------------
(* trim_to_question_end                                                    *)

\* the literal words of end_markers, each with its (?i) flag; the last two
\* are the two-character CJK markers, written here by their code points
end_markers ==
    << [word |-> <<"A", "n", "s", "w", "e", "r">>, ci |-> TRUE],
       [word |-> <<"S", "o", "l", "u", "t", "i", "o", "n">>, ci |-> TRUE],
       [word |-> <<"E", "x", "p", "l", "a", "n", "a", "t", "i", "o", "n">>, ci |-> TRUE],
       [word |-> <<"C", "o", "r", "r", "e", "c", "t", " ", "A", "n", "s", "w", "e", "r">>,
        ci |-> TRUE],
       [word |-> <<"U+7B54", "U+6848">>, ci |-> FALSE],
       [word |-> <<"U+89E3", "U+7B54">>, ci |-> FALSE] >>

\* (?m)^[ \t]*<word>[:\s]  matches at p
EndMarkerAt(text, p, marker) ==
    LET q == SkipBlank(text, p)
        r == q + Len(marker.word)
    IN  /\ LineStart(text, p)
        /\ LiteralAt(text, q, marker.word, marker.ci)
        /\ r <= Len(text)
        /\ text[r] = ":" \/ IsSpace(text[r])

\* (?:[2-9]\d*|[1-9]\d{2,})  matches the whole digit run text[q..e-1]
ItemNumber(text, q, e) ==
    /\ e > q
    /\ \/ text[q] \in Digits \ {"0", "1"}
       \/ text[q] \in Digits \ {"0"} /\ e - q >= 3

\* (?m)^[ \t]*(?:[2-9]\d*|[1-9]\d{2,})[\.)]\s+  matches at p
next_question(text, p) ==
    LET q == SkipBlank(text, p)
        e == SkipDigits(text, q)
    IN  /\ LineStart(text, p)
        /\ ItemNumber(text, q, e)
        /\ e + 1 <= Len(text)
        /\ text[e] \in {".", ")"}
        /\ IsSpace(text[e + 1])

trim_to_question_end(text) ==
    LET hits == {p \in 1..Len(text) :
                    \/ \E k \in DOMAIN end_markers : EndMarkerAt(text, p, end_markers[k])
                    \/ next_question(text, p)}
    IN  IF text = <<>> THEN text
        ELSE IF hits # {}
        THEN RStrip(Slice(text, 1, MinOf(hits) - 1), {"\n", "\r", " "})
        ELSE text

----------------------------------------------------------------------------
(* combine_chunks                                                          *)

\* the line boundaries of str.splitlines()
LineBreaks == {"\n", "\r", "\f"}

\* chunk.splitlines(): "\r\n" is one boundary, no empty last line
RECURSIVE SplitLines(_)
SplitLines(text) ==
    LET brk == {p \in 1..Len(text) : text[p] \in LineBreaks}
        p == MinOf(brk)
        n == IF text[p] = "\r" /\ p < Len(text) /\ text[p + 1] = "\n"
             THEN p + 2 ELSE p + 1
    IN  IF text = <<>> THEN <<>>
        ELSE IF brk = {} THEN <<text>>
        ELSE <<Slice(text, 1, p - 1)>> \o SplitLines(Slice(text, n, Len(text)))

\* the lines of every chunk, in order
RECURSIVE ChunkLines(_)
ChunkLines(chunks) ==
    IF chunks = <<>> THEN <<>>
    ELSE SplitLines(Head(chunks)) \o ChunkLines(Tail(chunks))

\* a loop that would keep the lines without stripping them (what C14 excludes)
RECURSIVE KeepLinesRaw(_, _)
KeepLinesRaw(lines, lines_out) ==
    IF lines = <<>> THEN lines_out
    ELSE LET l == Head(lines)
         IN  IF l = <<>> \/ \E k \in DOMAIN lines_out : lines_out[k] = l
             THEN KeepLinesRaw(Tail(lines), lines_out)
             ELSE KeepLinesRaw(Tail(lines), Append(lines_out, l))

\* the loop body: l = line.strip(); skipped when empty or seen before
RECURSIVE KeepLines(_, _)
KeepLines(lines, lines_out) ==
    IF lines = <<>> THEN lines_out
    ELSE LET l == Strip(Head(lines))
         IN  IF l = <<>> \/ \E k \in DOMAIN lines_out : lines_out[k] = l
             THEN KeepLines(Tail(lines), lines_out)
             ELSE KeepLines(Tail(lines), Append(lines_out, l))

\* "\n".join(lines)
RECURSIVE JoinLines(_)
JoinLines(lines) ==
    IF lines = <<>> THEN <<>>
    ELSE IF Len(lines) = 1 THEN lines[1]
    ELSE lines[1] \o <<"\n">> \o JoinLines(Tail(lines))

combine_chunks(chunks) == Strip(JoinLines(KeepLines(ChunkLines(chunks), <<>>)))

----------------------------------------------------------------------------
(* Bounds of the model and the texts the environment supplies.             *)

\* POST requests and hotkey presses started in one behaviour (the read-only
\* GET requests are not counted); each starts at most one capture thread and
\* one replay thread
MaxOps == 2

\* an extractor "question": '1. What is 2+2?\nAnswer: 4'
TextQuestion == <<"1", ".", " ", "W", "h", "a", "t", " ", "i", "s", " ", "2", "+", "2", "?", "\n", "A", "n", "s", "w", "e", "r", ":", " ", "4">>

\* an extractor "answer"
TextAnswer == <<"4">>

\* a text a client submits
TextTyped == <<"h", "i">>

\* what Tesseract reads from an image, before .strip(): blank, or the answer
TextOcrBlank == <<" ", "\n">>

TextOcrPage == <<" ", "4", "\n">>

\* the text a falsy value (None or '') is modelled by
NoText == <<>>

\* the page GET / shows while nothing is stored
Placeholder == <<"No text captured yet. Use Alt+C on PC or POST an image.">>

\* Python truthiness of a text or None
Truthy(text) == text # NoText

----------------------------------------------------------------------------
(* Inputs: environment flags, extractor and OCR outcomes, request bodies.  *)

Configs ==
    [USE_AI : BOOLEAN, ALLOW_OCR : BOOLEAN, AUTO_ANSWER : BOOLEAN,
     AUTO_TYPE_ON_CAPTURE : BOOLEAN]

\* what running ai_pipeline.py can give
ExtractorOutcomes ==
    [kind : {"noscript", "timeout", "nonzero", "nostdout", "badjson"},
     answer : {NoText}, question : {NoText}]
    \cup [kind : {"json"}, answer : {NoText, TextAnswer},
          question : {NoText, TextQuestion}]

\* what pytesseract.image_to_string can give
OcrOutcomes ==
    [kind : {"error"}, raw : {NoText}]
    \cup [kind : {"text"}, raw : {TextOcrBlank, TextOcrPage}]

\* bodies of POST /send_text
SendTextBodies ==
    [kind : {"empty", "garbage", "nondict"}, text : {NoText}, mode : {"type"}]
    \cup [kind : {"json"}, text : {NoText, TextTyped}, mode : {"type", "copy"}]

\* bodies of POST /send_image; saved tells whether the file was written
SendImageBodies ==
    [kind : {"empty"}, saved : {FALSE}]
    \cup [kind : {"raw"}, saved : BOOLEAN]
    \cup [kind : {"multipart"}, saved : BOOLEAN]

----------------------------------------------------------------------------
(* State.                                                                  *)

VARIABLES
    cfg,                 \* the environment flags read at import
    last_captured_text,  \* the store
    last_lock,           \* the thread holding the store lock
    http,                \* the server thread and the request it handles
    cap,                 \* the do_capture_and_store threads
    paste,               \* the do_paste_from_store threads
    lastWrite,           \* history: the value of the last completed store write
    ops,                 \* the number of counted operations started so far
    norm,                \* one call of a text function, taken alone
    stitch,              \* one call of capture_and_stitch_left, taken alone
    disk                 \* the image files of OUTPUT_DIR and the runs that use them

storeVars == <<cfg, last_captured_text, last_lock, http, cap, paste, lastWrite, ops>>

vars == <<cfg, last_captured_text, last_lock, http, cap, paste, lastWrite, ops,
          norm, stitch, disk>>

\* the text functions, the stitcher and the files when they are left aside
NormIdle == [pc |-> "idle"]

StitchIdle == [pc |-> "idle"]

DiskIdle == [pc |-> "idle"]

NoHolder == <<"none", 0>>

HttpThread == <<"http", 0>>

CapThread(i) == <<"cap", i>>

PasteThread(j) == <<"paste", j>>

Captures == 1..MaxOps

Workers == 1..MaxOps

\* the server thread between two requests
HttpIdle ==
    [pc |-> "idle", method |-> "", path |-> "", body |-> [kind |-> "none"],
     text |-> NoText, question |-> NoText, status |-> 0, reply |-> NoText,
     wrote |-> FALSE, spawned |-> FALSE]

\* a capture thread that has not been started
CapFree ==
    [pc |-> "free", combined |-> NoText, failed |-> FALSE, signals |-> <<>>,
     wrote |-> FALSE, spawned |-> FALSE]

\* a replay thread that has not been started
PasteFree ==
    [pc |-> "free", by |-> "none", expect |-> NoText, text |-> NoText]

Init ==
    /\ cfg \in Configs
    /\ last_captured_text = NoText
    /\ last_lock = NoHolder
    /\ http = HttpIdle
    /\ cap = [i \in Captures |-> CapFree]
    /\ paste = [j \in Workers |-> PasteFree]
    /\ lastWrite = NoText
    /\ ops = 0
    /\ norm = NormIdle
    /\ stitch = StitchIdle
    /\ disk = DiskIdle

----------------------------------------------------------------------------
(* The store and its lock.                                                 *)

\* a block that would be entered whoever holds the lock (what C10 excludes)
CanAcquireAlways(holder) == TRUE

\* with last_lock: entered only while no thread holds the lock
CanAcquire(holder) == holder = NoHolder

\* a store that would accumulate the written texts (what C1 excludes)
StoreWriteAppend(old, value) == old \o value

\* last_captured_text = value
StoreWrite(old, value) == value

\* the threads are numbered in the order they are started
NextCapture == 1 + Cardinality({i \in Captures : cap[i].pc # "free"})

NextWorker == 1 + Cardinality({j \in Workers : paste[j].pc # "free"})

\* threading.Thread(target=do_paste_from_store, daemon=True).start()
StartPaste(j, by, expect) ==
    paste' = [paste EXCEPT ![j] = [PasteFree EXCEPT !.pc = "lock", !.by = by, !.expect = expect]]

----------------------------------------------------------------------------
(* do_paste_from_store: one replay thread.                                 *)

\* a replay that would go on with an empty text (what C9 excludes)
PasteHasTextAlways(text) == TRUE

\* if not text: return
PasteHasText(text) == Truthy(text)

\* a replay thread that has returned
PasteEnded == [PasteFree EXCEPT !.pc = "ended"]

\* the module docstring's Alt+M: do_paste_from_store is started directly
HotkeyType ==
    /\ ops < MaxOps
    /\ ops' = ops + 1
    /\ StartPaste(NextWorker, "hotkey", NoText)
    /\ UNCHANGED <<cfg, last_captured_text, last_lock, http, cap, lastWrite,
                   norm, stitch, disk>>

\* with last_lock: text = last_captured_text
PasteRead(j) ==
    /\ paste[j].pc = "lock"
    /\ CanAcquire(last_lock)
    /\ last_lock' = PasteThread(j)
    /\ paste' = [paste EXCEPT ![j].pc = "unlock", ![j].text = last_captured_text]
    /\ UNCHANGED <<cfg, last_captured_text, http, cap, lastWrite, ops,
                   norm, stitch, disk>>

\* the with block is left; if not text: return
PasteRelease(j) ==
    /\ paste[j].pc = "unlock"
    /\ last_lock' = NoHolder
    /\ IF PasteHasText(paste[j].text)
       THEN paste' = [paste EXCEPT ![j].pc = "type"]
       ELSE paste' = [paste EXCEPT ![j] = PasteEnded]
    /\ UNCHANGED <<cfg, last_captured_text, http, cap, lastWrite, ops,
                   norm, stitch, disk>>

\* keyboard_controller.type(text); when pynput fails, pyperclip.copy(text)
\* and ctrl+v; when that fails too the error is printed; the thread ends
PasteReplay(j) ==
    /\ paste[j].pc = "type"
    /\ paste' = [paste EXCEPT ![j] = PasteEnded]
    /\ UNCHANGED <<cfg, last_captured_text, last_lock, http, cap, lastWrite, ops,
                   norm, stitch, disk>>

----------------------------------------------------------------------------
(* do_capture_and_store: one capture thread.                               *)

\* the text the extractor's output gives a capture: the answer when
\* NEO_AUTO_ANSWER is on and there is one, else the question
CaptureAiText(out, autoAnswer) ==
    IF out.kind # "json" THEN NoText
    ELSE IF autoAnswer /\ Truthy(out.answer) THEN out.answer
    ELSE IF Truthy(out.question) THEN out.question
    ELSE NoText

\* pytesseract.image_to_string(...).strip(), None when it raises
OcrText(ocr) == IF ocr.kind = "error" THEN NoText ELSE Strip(ocr.raw)

\* combined after the extractor and the OCR fallback
CaptureCombined(c, out, ocr) ==
    LET ai == IF c.USE_AI THEN CaptureAiText(out, c.AUTO_ANSWER) ELSE NoText
    IN  IF ~Truthy(ai) /\ c.ALLOW_OCR THEN OcrText(ocr) ELSE ai

\* heuristics whose stages would always replace combined (what C27 excludes)
CaptureHeuristicsUnguarded(combined) ==
    trim_to_question_end(extract_from_first_numbered(combined))

\* the heuristics after extraction: a stage's result replaces combined only
\* when it is non-empty and differs from it
CaptureHeuristics(combined) ==
    LET extracted == extract_from_first_numbered(combined)
        c1 == IF Truthy(extracted) /\ extracted # combined THEN extracted ELSE combined
        trimmed == trim_to_question_end(c1)
    IN  IF Truthy(trimmed) /\ trimmed # c1 THEN trimmed ELSE c1

\* a capture that would go on without text (what C8 excludes)
CaptureHasTextAlways(combined) == TRUE

\* if not combined: signal_failure(); return   (before and after the heuristics)
CaptureHasText(combined) == Truthy(combined)

\* cleanup of old files, then the screenshot(s): an image file, or none
\* ("No image captured." / "Failed to capture image", a plain return)
CaptureImage(i) ==
    /\ cap[i].pc = "start"
    /\ \/ cap' = [cap EXCEPT ![i].pc = "extract"]
       \/ cap' = [cap EXCEPT ![i].pc = "ended", ![i].failed = TRUE]
    /\ UNCHANGED <<cfg, last_captured_text, last_lock, http, paste, lastWrite, ops,
                   norm, stitch, disk>>

\* the texts extraction can give under each setting of the flags, and the
\* heuristics on each of them
CaptureResults ==
    [c \in Configs |->
        {CaptureCombined(c, out, ocr) : out \in ExtractorOutcomes, ocr \in OcrOutcomes}]

CaptureNormalized ==
    [text \in UNION {CaptureResults[c] : c \in Configs} |-> CaptureHeuristics(text)]

\* the extractor, the OCR fallback, the removal of the image, then the two
\* emptiness checks around the heuristics; failed tells that extraction
\* gave no text
CaptureExtract(i) ==
    /\ cap[i].pc = "extract"
    /\ \E c \in CaptureResults[cfg] :
          LET h == CaptureNormalized[c]
          IN  IF ~CaptureHasText(c) \/ ~CaptureHasText(h)
              THEN cap' = [cap EXCEPT ![i].pc = "ended", ![i].failed = ~Truthy(c),
                                      ![i].signals = Append(@, "failure")]
              ELSE cap' = [cap EXCEPT ![i].pc = "lock", ![i].failed = ~Truthy(c),
                                      ![i].combined = h]
    /\ UNCHANGED <<cfg, last_captured_text, last_lock, http, paste, lastWrite, ops,
                   norm, stitch, disk>>

\* with last_lock: last_captured_text = combined
CaptureWrite(i) ==
    /\ cap[i].pc = "lock"
    /\ CanAcquire(last_lock)
    /\ last_lock' = CapThread(i)
    /\ last_captured_text' = StoreWrite(last_captured_text, cap[i].combined)
    /\ lastWrite' = cap[i].combined
    /\ cap' = [cap EXCEPT ![i].pc = "clip", ![i].wrote = TRUE]
    /\ UNCHANGED <<cfg, http, paste, ops, norm, stitch, disk>>

\* pyperclip.copy(combined) and the print, still inside the with block
CaptureClip(i) ==
    /\ cap[i].pc = "clip"
    /\ cap' = [cap EXCEPT ![i].pc = "unlock"]
    /\ UNCHANGED <<cfg, last_captured_text, last_lock, http, paste, lastWrite, ops,
                   norm, stitch, disk>>

\* the with block is left
CaptureRelease(i) ==
    /\ cap[i].pc = "unlock"
    /\ last_lock' = NoHolder
    /\ cap' = [cap EXCEPT ![i].pc = "signal"]
    /\ UNCHANGED <<cfg, last_captured_text, http, paste, lastWrite, ops,
                   norm, stitch, disk>>

\* signal_success(), then the replay thread when AUTO_TYPE_ON_CAPTURE; the
\* function returns
CaptureFinish(i) ==
    /\ cap[i].pc = "signal"
    /\ IF cfg.AUTO_TYPE_ON_CAPTURE
       THEN /\ StartPaste(NextWorker, "capture", cap[i].combined)
            /\ cap' = [cap EXCEPT ![i].pc = "ended", ![i].combined = NoText,
                                  ![i].spawned = TRUE,
                                  ![i].signals = Append(@, "success")]
       ELSE /\ cap' = [cap EXCEPT ![i].pc = "ended", ![i].combined = NoText,
                                  ![i].signals = Append(@, "success")]
            /\ UNCHANGED paste
    /\ UNCHANGED <<cfg, last_captured_text, last_lock, http, lastWrite, ops,
                   norm, stitch, disk>>

----------------------------------------------------------------------------
(* SimpleImageHandler: HTTPServer handles one request at a time, on the    *)
(* serve_forever thread.                                                   *)

\* the server thread takes a request
Accept(method, path) == [HttpIdle EXCEPT !.method = method, !.path = path]

\* the reply the handler sends (status 0: the handler returned or raised
\* without sending any response)
Respond(h, status, reply) == [h EXCEPT !.pc = "respond", !.status = status, !.reply = reply]

\* do_GET: last_captured_text or <default>, for / and for /capture
GetText(path, store) ==
    IF Truthy(store) THEN store
    ELSE IF path = "/" THEN Placeholder ELSE NoText

\* a /send_text that would accept an empty text (what C2 excludes)
SendTextStatusAnyText(body) ==
    IF body.kind = "empty" THEN 400
    ELSE IF body.kind \in {"garbage", "nondict"} THEN 500
    ELSE 200

\* do_POST /send_text: the status the body leads to (200: the text is stored)
SendTextStatus(body) ==
    IF body.kind = "empty" THEN 400
    ELSE IF body.kind \in {"garbage", "nondict"} THEN 500
    ELSE IF ~Truthy(body.text) THEN 400
    ELSE 200

\* a /send_text that would store before checking the text (what C5 excludes)
SendTextProceedsUnchecked(body) == body.kind = "json"

\* do_POST /send_text: the store is written only after every check passed
SendTextProceeds(body) == SendTextStatus(body) = 200

\* do_POST /send_image: the answer when there is one, else the question
SendImageAiText(out) ==
    IF out.kind # "json" THEN NoText
    ELSE IF Truthy(out.answer) THEN out.answer
    ELSE IF Truthy(out.question) THEN out.question
    ELSE NoText

\* do_POST /send_image: combined after the extractor and the OCR fallback
SendImageCombined(c, out, ocr) ==
    LET ai == IF c.USE_AI /\ out.kind # "noscript" THEN SendImageAiText(out) ELSE NoText
    IN  IF ~Truthy(ai) /\ c.ALLOW_OCR THEN OcrText(ocr) ELSE ai

\* do_POST /send_image: if combined: (the store is written) else: no_text
SendImageHasText(combined) == Truthy(combined)

\* do_GET
HttpGet(path) ==
    /\ http.pc = "idle"
    /\ LET h == Accept("GET", path)
       IN  IF path \in {"/", "/capture"}
           THEN http' = [h EXCEPT !.pc = "get_lock"]
           ELSE http' = Respond(h, 404, NoText)
    /\ UNCHANGED <<cfg, last_captured_text, last_lock, cap, paste, lastWrite, ops,
                   norm, stitch, disk>>

\* with last_lock: text = last_captured_text or ...
HttpGetRead ==
    /\ http.pc = "get_lock"
    /\ CanAcquire(last_lock)
    /\ last_lock' = HttpThread
    /\ http' = [http EXCEPT !.pc = "get_unlock",
                            !.text = GetText(http.path, last_captured_text)]
    /\ UNCHANGED <<cfg, last_captured_text, cap, paste, lastWrite, ops,
                   norm, stitch, disk>>

\* the with block is left; then the page, or {"text": text}, is sent
HttpGetReply ==
    /\ http.pc = "get_unlock"
    /\ last_lock' = NoHolder
    /\ http' = Respond(http, 200, http.text)
    /\ UNCHANGED <<cfg, last_captured_text, cap, paste, lastWrite, ops,
                   norm, stitch, disk>>

\* POST /trigger_capture: the capture thread is started, 200 ok at once
HttpPostTriggerCapture ==
    /\ http.pc = "idle"
    /\ ops < MaxOps
    /\ ops' = ops + 1
    /\ cap' = [cap EXCEPT ![NextCapture] = [CapFree EXCEPT !.pc = "start"]]
    /\ http' = Respond(Accept("POST", "/trigger_capture"), 200, <<"ok">>)
    /\ UNCHANGED <<cfg, last_captured_text, last_lock, paste, lastWrite,
                   norm, stitch, disk>>

\* POST /send_text: Content-Length, json.loads, data.get('text'), if not text
HttpPostSendText(body) ==
    /\ http.pc = "idle"
    /\ ops < MaxOps
    /\ ops' = ops + 1
    /\ LET h == [Accept("POST", "/send_text") EXCEPT !.body = body, !.text = body.text]
       IN  IF SendTextProceeds(body)
           THEN http' = [h EXCEPT !.pc = "st_lock"]
           ELSE http' = Respond(h, SendTextStatus(body), NoText)
    /\ UNCHANGED <<cfg, last_captured_text, last_lock, cap, paste, lastWrite,
                   norm, stitch, disk>>

\* with last_lock: last_captured_text = text
SendTextWrite ==
    /\ http.pc = "st_lock"
    /\ CanAcquire(last_lock)
    /\ last_lock' = HttpThread
    /\ last_captured_text' = StoreWrite(last_captured_text, http.text)
    /\ lastWrite' = http.text
    /\ http' = [http EXCEPT !.pc = "st_unlock", !.wrote = TRUE]
    /\ UNCHANGED <<cfg, cap, paste, ops, norm, stitch, disk>>

\* the with block is left; mode 'type': the replay thread is started; any
\* other mode: pyperclip.copy(text); then the reply
SendTextFinish ==
    /\ http.pc = "st_unlock"
    /\ last_lock' = NoHolder
    /\ IF http.body.mode = "type"
       THEN /\ StartPaste(NextWorker, "send_text", http.text)
            /\ http' = Respond([http EXCEPT !.spawned = TRUE],
                               SendTextStatus(http.body), <<"ok">>)
       ELSE /\ http' = Respond(http, SendTextStatus(http.body), <<"ok">>)
            /\ UNCHANGED paste
    /\ UNCHANGED <<cfg, last_captured_text, cap, lastWrite, ops,
                   norm, stitch, disk>>

\* POST /send_image: Content-Length, then the image file is written
HttpPostSendImage(body) ==
    /\ http.pc = "idle"
    /\ ops < MaxOps
    /\ ops' = ops + 1
    /\ LET h == Accept("POST", "/send_image")
       IN  IF body.kind = "empty" THEN http' = Respond(h, 400, NoText)
           ELSE IF ~body.saved THEN http' = Respond(h, 500, <<"failed">>)
           ELSE http' = [h EXCEPT !.pc = "si_extract"]
    /\ UNCHANGED <<cfg, last_captured_text, last_lock, cap, paste, lastWrite,
                   norm, stitch, disk>>

\* the extractor and the OCR fallback, inside try/finally: a
\* subprocess.TimeoutExpired is not caught, and the finally block's return
\* drops it, so that nothing is sent; question keeps the extractor's question
SendImageExtract ==
    /\ http.pc = "si_extract"
    /\ \E out \in ExtractorOutcomes, ocr \in OcrOutcomes :
          LET combined == SendImageCombined(cfg, out, ocr)
              ran == cfg.USE_AI /\ out.kind # "noscript"
              h == [http EXCEPT !.question = IF ran THEN out.question ELSE NoText]
          IN  IF ran /\ out.kind = "timeout" THEN http' = Respond(h, 0, NoText)
              ELSE IF SendImageHasText(combined)
              THEN http' = [h EXCEPT !.pc = "si_lock", !.text = combined]
              ELSE http' = Respond(h, 500, <<"no_text">>)
    /\ UNCHANGED <<cfg, last_captured_text, last_lock, cap, paste, lastWrite, ops,
                   norm, stitch, disk>>

\* with last_lock: last_captured_text = combined
SendImageWrite ==
    /\ http.pc = "si_lock"
    /\ CanAcquire(last_lock)
    /\ last_lock' = HttpThread
    /\ last_captured_text' = StoreWrite(last_captured_text, http.text)
    /\ lastWrite' = http.text
    /\ http' = [http EXCEPT !.pc = "si_unlock", !.wrote = TRUE]
    /\ UNCHANGED <<cfg, cap, paste, ops, norm, stitch, disk>>

\* the with block is left; pyperclip.copy(combined); the replay thread when
\* AUTO_TYPE_ON_CAPTURE; 200 ok
SendImageFinish ==
    /\ http.pc = "si_unlock"
    /\ last_lock' = NoHolder
    /\ IF cfg.AUTO_TYPE_ON_CAPTURE
       THEN /\ StartPaste(NextWorker, "send_image", http.text)
            /\ http' = Respond([http EXCEPT !.spawned = TRUE], 200, <<"ok">>)
       ELSE /\ http' = Respond(http, 200, <<"ok">>)
            /\ UNCHANGED paste
    /\ UNCHANGED <<cfg, last_captured_text, cap, lastWrite, ops,
                   norm, stitch, disk>>

\* POST to any other path: content_type is read and then
\* self.rfile.read(length) raises, length being unbound; nothing is sent
HttpPostUnknown ==
    /\ http.pc = "idle"
    /\ ops < MaxOps
    /\ ops' = ops + 1
    /\ http' = Respond(Accept("POST", "/unknown"), 0, NoText)
    /\ UNCHANGED <<cfg, last_captured_text, last_lock, cap, paste, lastWrite,
                   norm, stitch, disk>>

\* the handler returns; the server takes the next request
HttpDone ==
    /\ http.pc = "respond"
    /\ http' = HttpIdle
    /\ UNCHANGED <<cfg, last_captured_text, last_lock, cap, paste, lastWrite, ops,
                   norm, stitch, disk>>

----------------------------------------------------------------------------

Next ==
    \/ \E path \in {"/", "/capture", "/unknown"} : HttpGet(path)
    \/ HttpGetRead
    \/ HttpGetReply
    \/ HttpPostTriggerCapture
    \/ \E body \in SendTextBodies : HttpPostSendText(body)
    \/ SendTextWrite
    \/ SendTextFinish
    \/ \E body \in SendImageBodies : HttpPostSendImage(body)
    \/ SendImageExtract
    \/ SendImageWrite
    \/ SendImageFinish
    \/ HttpPostUnknown
    \/ HttpDone
    \/ HotkeyType
    \/ \E i \in Captures : CaptureImage(i)
    \/ \E i \in Captures : CaptureExtract(i)
    \/ \E i \in Captures : CaptureWrite(i)
    \/ \E i \in Captures : CaptureClip(i)
    \/ \E i \in Captures : CaptureRelease(i)
    \/ \E i \in Captures : CaptureFinish(i)
    \/ \E j \in Workers : PasteRead(j)
    \/ \E j \in Workers : PasteRelease(j)
    \/ \E j \in Workers : PasteReplay(j)

Spec == Init /\ [][Next]_vars

\* the program before any request, with the flags at their defaults
DefaultConfig ==
    [USE_AI |-> TRUE, ALLOW_OCR |-> FALSE, AUTO_ANSWER |-> TRUE,
     AUTO_TYPE_ON_CAPTURE |-> FALSE]

StoreIdle ==
    /\ cfg = DefaultConfig
    /\ last_captured_text = NoText
    /\ last_lock = NoHolder
    /\ http = HttpIdle
    /\ cap = [i \in Captures |-> CapFree]
    /\ paste = [j \in Workers |-> PasteFree]
    /\ lastWrite = NoText
    /\ ops = 0

----------------------------------------------------------------------------
(* The text functions taken alone: one call on one argument.               *)

\* lines of a text handed to extract_from_first_numbered,
\* trim_to_question_end or the heuristics of do_capture_and_store
MaxLines == 3

\* chunks of a list handed to combine_chunks, and characters of all the
\* chunks of a list together
MaxChunks == 2

MaxChunkChars == 4

LineIntro == <<"i", "n", "t", "r", "o">>

LineFirst == <<"1", ".", " ", "Q", "?">>

LineAnswer == <<"A", "n", "s", "w", "e", "r", ":", " ", "4", "2">>

LineSecond == <<"2", ".", " ", "N", "e", "x", "t">>

LineTenth == <<"1", "0", ".", " ", "T", "e", "n">>

LineIndented == <<" ", " ", "1", ")", " ", "I", "n">>

LineInText == <<"s", "e", "e", " ", "1", ".", " ", "x">>

LineBlank == <<>>

LineTrailing == <<"Q", " ", "\r">>

LineSolution == <<"s", "o", "l", "u", "t", "i", "o", "n", "\t", "b">>

LineAnswers == <<"A", "n", "s", "w", "e", "r", "s">>

InputLines ==
    {LineIntro, LineFirst, LineAnswer, LineSecond, LineTenth, LineIndented,
     LineInText, LineBlank, LineTrailing, LineSolution, LineAnswers}

\* the texts of one to lines lines, and the empty text
InputTexts(lines) ==
    {JoinLines(ls) : ls \in UNION {[1..k -> InputLines] : k \in 1..lines}}
    \cup {NoText}

ChunkChars == {"a", " ", "\n", "\r"}

\* the characters of the chunks of a list, one chunk after the other
ChunkTexts(chars) == UNION {[1..k -> ChunkChars] : k \in 0..chars}

\* the places where a text of n characters is cut into 1..MaxChunks chunks
Cuts(n) ==
    {c \in UNION {[1..k -> 0..n] : k \in 0..(MaxChunks - 1)} :
        \A j \in 1..(Len(c) - 1) : c[j] <= c[j + 1]}

\* the chunks the cuts make of the text
CutAt(text, cuts) ==
    [j \in 1..(Len(cuts) + 1) |->
        SubSeq(text, IF j = 1 THEN 1 ELSE cuts[j - 1] + 1,
                     IF j = Len(cuts) + 1 THEN Len(text) ELSE cuts[j])]

ChunkLists(chars) ==
    UNION {{CutAt(t, c) : c \in Cuts(Len(t))} : t \in ChunkTexts(chars)}

\* a call about to be made on a text, or on a list of chunks
NormCall(text, chunks) ==
    [pc |-> "call", fn |-> "", text |-> text, chunks |-> chunks,
     out |-> NoText, again |-> NoText]

\* the call has returned out
NormReturn(n, fn, out) == [n EXCEPT !.pc = "return", !.fn = fn, !.out = out]

NormInit ==
    /\ StoreIdle
    /\ norm \in {NormCall(t, <<>>) : t \in InputTexts(MaxLines)}
               \cup {NormCall(NoText, cs) : cs \in ChunkLists(MaxChunkChars)}
    /\ stitch = StitchIdle
    /\ disk = DiskIdle

CallExtract ==
    /\ norm.pc = "call" /\ norm.chunks = <<>>
    /\ norm' = NormReturn(norm, "extract_from_first_numbered",
                          extract_from_first_numbered(norm.text))
    /\ UNCHANGED <<storeVars, stitch, disk>>

CallTrim ==
    /\ norm.pc = "call" /\ norm.chunks = <<>>
    /\ norm' = NormReturn(norm, "trim_to_question_end", trim_to_question_end(norm.text))
    /\ UNCHANGED <<storeVars, stitch, disk>>

\* the heuristics of do_capture_and_store on the extracted text
CallHeuristics ==
    /\ norm.pc = "call" /\ norm.chunks = <<>> /\ Truthy(norm.text)
    /\ norm' = NormReturn(norm, "heuristics", CaptureHeuristics(norm.text))
    /\ UNCHANGED <<storeVars, stitch, disk>>

CallCombine ==
    /\ norm.pc = "call" /\ norm.chunks # <<>>
    /\ norm' = NormReturn(norm, "combine_chunks", combine_chunks(norm.chunks))
    /\ UNCHANGED <<storeVars, stitch, disk>>

\* combine_chunks([out]) on the result of the first call
CallCombineAgain ==
    /\ norm.pc = "return" /\ norm.fn = "combine_chunks"
    /\ norm' = [norm EXCEPT !.pc = "returned", !.again = combine_chunks(<<norm.out>>)]
    /\ UNCHANGED <<storeVars, stitch, disk>>

NormNext ==
    \/ CallExtract
    \/ CallTrim
    \/ CallHeuristics
    \/ CallCombine
    \/ CallCombineAgain

NormSpec == NormInit /\ [][NormNext]_vars

----------------------------------------------------------------------------
(* capture_and_stitch_left taken alone: one call.                          *)

DEFAULT_MAX_SCROLLS == 3

\* the largest max_scrolls a call is made with
MaxScrolls == 5

\* max_duplicates = 2
max_duplicates == 2

\* the sizes of the screenshots
FrameWidths == {1, 2}

FrameHeights == {1, 2, 4}

Frames == [width : FrameWidths, height : FrameHeights]

NoCanvas == [width |-> 0, height |-> 0, pastes |-> <<>>]

\* the height of pil_img and the outcome of the byte comparison before the
\* first screenshot
NoShot == [height |-> 0, similarity |-> "none"]

\* shots and scrolls count the calls of pyautogui.screenshot and of
\* pyautogui.press('pagedown'), failed ones included; stop tells how the
\* loop was left; last is the height of the latest screenshot and what its
\* comparison gave
StitchInit ==
    /\ StoreIdle
    /\ norm = NormIdle
    /\ stitch \in {[pc |-> "loop", max_scrolls |-> m, i |-> 0, imgs |-> <<>>,
                     consecutive_duplicates |-> 0, log |-> <<>>,
                     shots |-> 0, scrolls |-> 0, stop |-> "none", last |-> NoShot,
                     canvas |-> NoCanvas, result |-> "pending"] :
                    m \in DEFAULT_MAX_SCROLLS..MaxScrolls}
    /\ disk = DiskIdle

\* a comparison that would also be made for the first screenshot (what C23
\* excludes)
IsDuplicateBySimilarity(imgs, img, similar) == similar

\* the comparison of the bottom strip of the last kept frame with the top
\* strip of the new one; similar tells whether more than 95% of the bytes
\* of two strips of equal size agree.  Strips of different sizes are not
\* compared, and empty strips raise ZeroDivisionError, which is caught
IsDuplicate(imgs, img, similar) ==
    IF imgs = <<>> THEN FALSE
    ELSE LET h1 == imgs[Len(imgs)].height
             h2 == img.height
             crop_h == IF h1 \div 2 < 300 THEN h1 \div 2 ELSE 300
             top_h == IF crop_h < h2 THEN crop_h ELSE h2
         IN  top_h = crop_h /\ crop_h > 0 /\ similar

\* similarity > 0.95 ("high") or not ("low"), "none" when it is not computed:
\* for the first frame, for strips of different sizes and for empty strips
Similarity(imgs, img, similar) ==
    IF imgs = <<>> THEN "none"
    ELSE LET h1 == imgs[Len(imgs)].height
             h2 == img.height
             crop_h == IF h1 \div 2 < 300 THEN h1 \div 2 ELSE 300
             top_h == IF crop_h < h2 THEN crop_h ELSE h2
         IN  IF top_h = crop_h /\ crop_h > 0
             THEN (IF similar THEN "high" ELSE "low")
             ELSE "none"

\* a loop that would stop one duplicate later (what C17 excludes)
StopEarlyLater(duplicates) == duplicates > max_duplicates

\* if consecutive_duplicates >= max_duplicates: break
StopEarly(duplicates) == duplicates >= max_duplicates

\* a loop that would run once more (what C24 excludes)
InRangeInclusive(i, max_scrolls) == i <= max_scrolls

\* for i in range(max_scrolls)
InRange(i, max_scrolls) == i < max_scrolls

\* a failing screenshot that would end the call without a result (what C22
\* excludes)
ScreenshotFailsReturn(s) ==
    [s EXCEPT !.pc = "done", !.result = "None", !.shots = @ + 1, !.stop = "screenshot"]

\* pyautogui.screenshot raises: except Exception: break
ScreenshotFails(s) ==
    [s EXCEPT !.pc = "stitch", !.shots = @ + 1, !.stop = "screenshot"]

\* one iteration of the loop: screenshot, comparison, page down
StitchIteration ==
    /\ stitch.pc = "loop" /\ InRange(stitch.i, stitch.max_scrolls)
    /\ \/ stitch' = ScreenshotFails(stitch)
       \/ \E img \in Frames, similar \in BOOLEAN, scrolled \in BOOLEAN :
             LET dup == IsDuplicate(stitch.imgs, img, similar)
                 d == IF dup THEN stitch.consecutive_duplicates + 1 ELSE 0
                 s1 == [stitch EXCEPT
                          !.shots = @ + 1,
                          !.last = [height |-> img.height,
                                    similarity |-> Similarity(stitch.imgs, img, similar)],
                          !.consecutive_duplicates = d,
                          !.imgs = IF dup THEN @ ELSE Append(@, img),
                          !.log = Append(@, IF dup THEN "duplicate" ELSE "kept")]
             IN  IF dup /\ StopEarly(d)
                 THEN stitch' = [s1 EXCEPT !.pc = "stitch", !.stop = "duplicates"]
                 ELSE IF ~scrolled
                 THEN stitch' = [s1 EXCEPT !.pc = "stitch", !.scrolls = @ + 1,
                                           !.stop = "pagedown"]
                 ELSE stitch' = [s1 EXCEPT !.i = @ + 1, !.scrolls = @ + 1]
    /\ UNCHANGED <<storeVars, norm, disk>>

\* range(max_scrolls) is exhausted
StitchLoopEnd ==
    /\ stitch.pc = "loop" /\ ~InRange(stitch.i, stitch.max_scrolls)
    /\ stitch' = [stitch EXCEPT !.pc = "stitch", !.stop = "range"]
    /\ UNCHANGED <<storeVars, norm, disk>>

\* sum(heights) of the first n frames
RECURSIVE SumHeights(_, _)
SumHeights(imgs, n) ==
    IF n = 0 THEN 0 ELSE SumHeights(imgs, n - 1) + imgs[n].height

\* max(widths)
MaxWidth(imgs) ==
    CHOOSE w \in {imgs[k].width : k \in DOMAIN imgs} :
       \A k \in DOMAIN imgs : imgs[k].width <= w

\* a paste loop that would not advance y (what C18 excludes)
PasteYFixed(imgs, k) == 0

\* y when frame k is pasted: y += im.height after each earlier frame
PasteY(imgs, k) == SumHeights(imgs, k - 1)

\* if not imgs: return None; else the canvas and the pastes
StitchCanvas ==
    /\ stitch.pc = "stitch"
    /\ IF stitch.imgs = <<>>
       THEN stitch' = [stitch EXCEPT !.pc = "done", !.result = "None"]
       ELSE stitch' = [stitch EXCEPT
                         !.pc = "save",
                         !.canvas = [width |-> MaxWidth(stitch.imgs),
                                     height |-> SumHeights(stitch.imgs, Len(stitch.imgs)),
                                     pastes |-> [k \in DOMAIN stitch.imgs |->
                                                   [x |-> 0, y |-> PasteY(stitch.imgs, k)]]]]
    /\ UNCHANGED <<storeVars, norm, disk>>

\* stitched.save(out_path): the path, or None when it raises
StitchSave ==
    /\ stitch.pc = "save"
    /\ \E saved \in BOOLEAN :
          stitch' = [stitch EXCEPT !.pc = "done",
                                  !.result = IF saved THEN "out_path" ELSE "None"]
    /\ UNCHANGED <<storeVars, norm, disk>>

StitchNext ==
    \/ StitchIteration
    \/ StitchLoopEnd
    \/ StitchCanvas
    \/ StitchSave

StitchSpec == StitchInit /\ [][StitchNext]_vars

\* the call runs on one thread and every step of it returns or raises, so
\* the call is never suspended for ever
StitchLive == StitchSpec /\ WF_vars(StitchNext)

----------------------------------------------------------------------------
(* The image files of OUTPUT_DIR: capture runs and POST /send_image.       *)

\* the last value of int(time.time()), counted from the start
MaxClock == 1

\* the runs: capture threads and /send_image requests, in start order
Runs == 1..MaxOps

NoPath == [kind |-> "none", ts |-> 0]

RunFree ==
    [pc |-> "free", op |-> "", path |-> NoPath, listing |-> {},
     entered |-> FALSE, outcome |-> ""]

DiskInit ==
    /\ StoreIdle
    /\ norm = NormIdle
    /\ stitch = StitchIdle
    /\ disk = [clock |-> 0, files |-> {}, runs |-> [r \in Runs |-> RunFree]]

NextRun == 1 + Cardinality({r \in Runs : disk.runs[r].pc # "free"})

\* the file name of a file
NameOf(f) == [kind |-> f.kind, ts |-> f.ts]

\* os.path.isfile(img_path)
IsFile(files, path) == \E f \in files : NameOf(f) = path

\* a removal that would leave the file in place (what C12 excludes)
RemoveFileNot(files, path) == files

\* os.remove(img_path)
RemoveFile(files, path) == {f \in files : NameOf(f) # path}

\* open(img_path, 'wb') / stitched.save(out_path): the file of that name is
\* created or replaced; owner is the run that wrote it
SaveFile(files, path, owner) ==
    RemoveFile(files, path) \cup {[kind |-> path.kind, ts |-> path.ts, owner |-> owner]}

\* fname.startswith('capture_chunk_') or fname.startswith('capture_image_')
IsTempName(path) == path.kind \in {"capture_image_", "capture_image_recv_"}

\* the outcomes of the extraction step
ExtractionOutcomes == {"text", "failed", "timeout", "ocr"}

\* time.time() moves on
ClockTick ==
    /\ disk.clock < MaxClock
    /\ disk' = [disk EXCEPT !.clock = @ + 1]
    /\ UNCHANGED <<storeVars, norm, stitch>>

\* POST /trigger_capture: a do_capture_and_store thread is started
RunCapture ==
    /\ NextRun \in Runs
    /\ disk' = [disk EXCEPT !.runs[NextRun] =
                   [RunFree EXCEPT !.pc = "list", !.op = "capture"]]
    /\ UNCHANGED <<storeVars, norm, stitch>>

\* do_capture_and_store: os.listdir(OUTPUT_DIR)
CaptureList(r) ==
    /\ disk.runs[r].pc = "list"
    /\ disk' = [disk EXCEPT
                   !.runs[r].pc = "clean",
                   !.runs[r].listing = {NameOf(f) : f \in {g \in disk.files : IsTempName(NameOf(g))}}]
    /\ UNCHANGED <<storeVars, norm, stitch>>

\* do_capture_and_store: the listed temporary files are removed
CaptureClean(r) ==
    /\ disk.runs[r].pc = "clean"
    /\ disk' = [disk EXCEPT
                   !.files = {f \in @ : NameOf(f) \notin disk.runs[r].listing},
                   !.runs[r].pc = "shot",
                   !.runs[r].listing = {}]
    /\ UNCHANGED <<storeVars, norm, stitch>>

\* do_capture_and_store: the image is saved as capture_image_{ts}.png, or
\* there is no image and the run returns
CaptureShot(r) ==
    /\ disk.runs[r].pc = "shot"
    /\ \/ LET path == [kind |-> "capture_image_", ts |-> disk.clock]
          IN  disk' = [disk EXCEPT !.files = SaveFile(@, path, r),
                                   !.runs[r].pc = "check",
                                   !.runs[r].path = path]
       \/ disk' = [disk EXCEPT !.runs[r].pc = "ended"]
    /\ UNCHANGED <<storeVars, norm, stitch>>

\* POST /send_image: the server thread, one request at a time, saves the
\* body as capture_image_recv_{ts}.png, or fails to
RunSendImage ==
    /\ NextRun \in Runs
    /\ \A r \in Runs : disk.runs[r].op = "send_image" => disk.runs[r].pc = "ended"
    /\ \/ LET path == [kind |-> "capture_image_recv_", ts |-> disk.clock]
          IN  disk' = [disk EXCEPT
                         !.files = SaveFile(@, path, NextRun),
                         !.runs[NextRun] = [RunFree EXCEPT !.pc = "check",
                                                           !.op = "send_image",
                                                           !.path = path]]
       \/ disk' = [disk EXCEPT !.runs[NextRun] =
                      [RunFree EXCEPT !.pc = "ended", !.op = "send_image"]]
    /\ UNCHANGED <<storeVars, norm, stitch>>

\* if not img_path or not os.path.isfile(img_path): return; else the
\* extraction step is entered
RunCheck(r) ==
    /\ disk.runs[r].pc = "check"
    /\ IF IsFile(disk.files, disk.runs[r].path)
       THEN disk' = [disk EXCEPT !.runs[r].pc = "extract", !.runs[r].entered = TRUE]
       ELSE disk' = [disk EXCEPT !.runs[r].pc = "ended"]
    /\ UNCHANGED <<storeVars, norm, stitch>>

\* the extractor (and the OCR fallback) with every outcome
RunExtract(r) ==
    /\ disk.runs[r].pc = "extract"
    /\ \E outcome \in ExtractionOutcomes :
          disk' = [disk EXCEPT !.runs[r].pc = "remove", !.runs[r].outcome = outcome]
    /\ UNCHANGED <<storeVars, norm, stitch>>

\* if img_path and os.path.isfile(img_path): os.remove(img_path)
RunRemove(r) ==
    /\ disk.runs[r].pc = "remove"
    /\ disk' = [disk EXCEPT
                   !.files = IF IsFile(@, disk.runs[r].path)
                             THEN RemoveFile(@, disk.runs[r].path) ELSE @,
                   !.runs[r].pc = "ended"]
    /\ UNCHANGED <<storeVars, norm, stitch>>

DiskNext ==
    \/ ClockTick
    \/ RunCapture
    \/ RunSendImage
    \/ \E r \in Runs : CaptureList(r)
    \/ \E r \in Runs : CaptureClean(r)
    \/ \E r \in Runs : CaptureShot(r)
    \/ \E r \in Runs : RunCheck(r)
    \/ \E r \in Runs : RunExtract(r)
    \/ \E r \in Runs : RunRemove(r)

DiskSpec == DiskInit /\ [][DiskNext]_vars

----------------------------------------------------------------------------
(* Properties.                                                             *)

\* the threads that are inside their with last_lock: block
InCriticalSection ==
    (IF http.pc \in {"get_unlock", "st_unlock", "si_unlock"} THEN {HttpThread} ELSE {})
    \cup {CapThread(i) : i \in {i \in Captures : cap[i].pc \in {"clip", "unlock"}}}
    \cup {PasteThread(j) : j \in {j \in Workers : paste[j].pc = "unlock"}}

\* C1: the text GET /capture reads, and then returns, is the value of the
\* most recently completed store write (no merge, no append, no older value)
C1_CaptureReturnsLastWrite ==
    /\ (http.path = "/capture" /\ http.pc = "get_unlock") => http.text = lastWrite
    /\ (http.path = "/capture" /\ http.pc = "respond")
          => (http.status = 200 /\ http.reply = http.text)

\* a capture wrote, POST /send_text then overwrote it, and GET /capture
\* returned the submitted text
C1_Witness ==
    /\ http.path = "/capture" /\ http.pc = "respond" /\ http.reply = TextTyped
    /\ last_captured_text = TextTyped
    /\ \E i \in Captures : cap[i].wrote

\* a step in which some thread writes the store
WriteStep ==
    \/ http'.wrote /\ ~http.wrote
    \/ \E i \in Captures : cap'[i].wrote /\ ~cap[i].wrote

\* C2: no capture, /send_text or /send_image writes an empty text, and a
\* store that holds a text never becomes empty again
C2_NoEmptyWrite ==
    [][/\ WriteStep => Truthy(last_captured_text')
       /\ Truthy(last_captured_text) => Truthy(last_captured_text')]_vars

\* POST /send_text with an empty text is refused while the store holds a text
C2_Witness ==
    /\ http.path = "/send_text" /\ http.pc = "respond" /\ http.status = 400
    /\ http.body.kind = "json" /\ ~Truthy(http.body.text)
    /\ Truthy(last_captured_text)

\* C3: when the extractor gives POST /send_image a non-empty question (and
\* auto-answer is disabled), the request is answered 200 and the text written
\* to the store is the normalizer's output for that question
C3_SendImageStoresNormalized ==
    (http.path = "/send_image" /\ http.pc = "respond" /\ Truthy(http.question)
        /\ ~cfg.AUTO_ANSWER)
    => (http.status = 200 /\ http.wrote /\ http.text = CaptureHeuristics(http.question))

\* C4: POST /send_text with a body that is not JSON is answered 400
C4_UnparseableIs400 ==
    (http.path = "/send_text" /\ http.pc = "respond" /\ http.body.kind = "garbage")
    => http.status = 400

\* C5: a POST /send_text or POST /send_image that is not answered 200 has
\* written nothing to the store and has started no replay thread
C5_RejectedRequestNoEffect ==
    (http.path \in {"/send_text", "/send_image"} /\ http.pc = "respond"
        /\ http.status # 200)
    => (~http.wrote /\ ~http.spawned)

\* POST /send_image is answered 500 no_text while the store holds a text
C5_Witness ==
    /\ http.path = "/send_image" /\ http.pc = "respond"
    /\ http.status = 500 /\ http.reply = <<"no_text">>
    /\ Truthy(last_captured_text)

\* C6: the replay thread POST /send_text (mode type) started types the text
\* that request submitted
C6_ReplaysSubmittedText ==
    \A j \in Workers :
       (paste[j].by = "send_text" /\ paste[j].pc = "type")
       => paste[j].text = paste[j].expect

\* C7: a capture run that has returned has emitted exactly one indicator:
\* success if and only if it wrote the store (and after the write), failure
\* for every failure
C7_OneOutcomeIndicator ==
    \A i \in Captures :
       /\ cap[i].pc = "ended" =>
             /\ Len(cap[i].signals) = 1
             /\ cap[i].signals = <<"success">> <=> cap[i].wrote
             /\ cap[i].failed => cap[i].signals = <<"failure">>
       /\ cap[i].signals # <<>> /\ cap[i].signals[1] = "success" => cap[i].wrote

\* C8: a capture run that got no image, or no text from extraction, writes
\* nothing to the store and starts no replay thread
C8_FailedCaptureNoEffect ==
    \A i \in Captures :
       cap[i].failed => (cap[i].pc = "ended" /\ ~cap[i].wrote /\ ~cap[i].spawned)

\* a capture run failed at extraction while the store holds a text
C8_Witness ==
    /\ \E i \in Captures :
          cap[i].failed /\ cap[i].pc = "ended" /\ cap[i].signals = <<"failure">>
    /\ Truthy(last_captured_text)

\* C9: a replay thread never changes the store and never reaches the input
\* replayer with an empty text: one that read an empty store returns
C9_NoReplayOfEmptyText ==
    [][\A j \in Workers :
          (paste[j].pc # "free" /\ paste'[j] # paste[j])
          => /\ last_captured_text' = last_captured_text
             /\ paste'[j].pc = "type" => Truthy(paste'[j].text)
             /\ ~Truthy(paste[j].text) /\ paste[j].pc = "unlock"
                   => paste'[j].pc = "ended"]_vars

\* a replay thread has read the empty store
C9_Witness ==
    \E j \in Workers : paste[j].pc = "unlock" /\ ~Truthy(paste[j].text)

\* C10: a thread inside its with last_lock: block, where every read and
\* write of the store is made, holds the lock, and no two threads are inside
\* such a block at once
C10_StoreAccessUnderLock ==
    /\ \A t \in InCriticalSection : last_lock = t
    /\ Cardinality(InCriticalSection) <= 1

\* the server thread waits for the lock a capture thread holds
C10_Witness ==
    /\ http.pc = "get_lock"
    /\ \E i \in Captures : cap[i].pc = "clip" /\ last_lock = CapThread(i)

\* C11: a thread that holds the lock only reads or writes the store: none
\* is at an extraction, a typing or a clipboard operation
C11_OnlyStoreAccessUnderLock ==
    /\ \A i \in Captures :
          last_lock = CapThread(i) => cap[i].pc \notin {"extract", "clip"}
    /\ \A j \in Workers : last_lock = PasteThread(j) => paste[j].pc # "type"
    /\ last_lock = HttpThread => http.pc # "si_extract"

\* C13: while POST /send_image is in its extraction, the server can accept
\* another request (GET /capture, POST /trigger_capture)
C13_AcceptsWhileExtracting ==
    http.pc = "si_extract"
    => /\ ENABLED HttpGet("/capture")
       /\ ops < MaxOps => ENABLED HttpPostTriggerCapture

\* C14: combine_chunks([combine_chunks(chunks)]) = combine_chunks(chunks)
\* for every list of chunks
C14_CombineIdempotent ==
    norm.pc = "returned" => norm.again = norm.out

\* two different chunks that hold the same line were combined, twice
C14_Witness ==
    /\ norm.pc = "returned" /\ Len(norm.chunks) = 2
    /\ norm.chunks[1] # norm.chunks[2]
    /\ norm.out = <<"a">> /\ norm.again = <<"a">>

\* C15: extract_from_first_numbered returns the text from the first
\* line-start "1." or "1)" (indentation allowed) on; without one, from the
\* first in-text "1." or "1)" followed by whitespace on; without either, the
\* text itself; the result is always a suffix of the text
C15_ExtractFromFirstNumbered ==
    (norm.pc = "return" /\ norm.fn = "extract_from_first_numbered")
    => LET text == norm.text
           lineHits == {p \in 1..Len(text) : NumberedLineAt(text, p)}
           textHits == {p \in 1..Len(text) : NumberedInTextAt(text, p)}
       IN  /\ \E k \in 1..(Len(text) + 1) : norm.out = SubSeq(text, k, Len(text))
           /\ lineHits # {} => norm.out = SubSeq(text, MinOf(lineHits), Len(text))
           /\ (lineHits = {} /\ textHits # {})
                 => norm.out = SubSeq(text, MinOf(textHits), Len(text))
           /\ (lineHits = {} /\ textHits = {}) => norm.out = text

\* an in-text marker on the first line, a line-start marker on the second:
\* the result starts at the second line
C15_Witness ==
    /\ norm.pc = "return" /\ norm.fn = "extract_from_first_numbered"
    /\ norm.text = JoinLines(<<LineInText, LineFirst, LineSecond>>)
    /\ norm.out = JoinLines(<<LineFirst, LineSecond>>)

\* an enumerated item numbered 2 or higher starts the line at p: a decimal
\* number, then "." or ")", then whitespace
EnumeratedItemAt(text, p) ==
    LET q == SkipBlank(text, p)
        e == SkipDigits(text, q)
    IN  /\ LineStart(text, p)
        /\ e > q /\ text[q] # "0"
        /\ e - q >= 2 \/ text[q] # "1"
        /\ e + 1 <= Len(text)
        /\ text[e] \in {".", ")"}
        /\ IsSpace(text[e + 1])

\* an answer/solution/explanation marker line starts at p
MarkerLineAt(text, p) ==
    \E k \in DOMAIN end_markers : EndMarkerAt(text, p, end_markers[k])

\* C16: trim_to_question_end cuts the text just before the earliest marker
\* line or enumerated item numbered 2 or higher, whichever comes first
\* (trailing newlines and spaces dropped), and returns the text unchanged
\* when there is none
C16_TrimAtEarliest ==
    (norm.pc = "return" /\ norm.fn = "trim_to_question_end")
    => LET text == norm.text
           hits == {p \in 1..Len(text) :
                       MarkerLineAt(text, p) \/ EnumeratedItemAt(text, p)}
       IN  IF hits = {} THEN norm.out = text
           ELSE norm.out = RStrip(SubSeq(text, 1, MinOf(hits) - 1), {"\n", "\r", " "})

\* C19: whenever a line starts with an enumerated item numbered 2 or higher
\* (10 to 19 included), trim_to_question_end returns a text that ends
\* before the first such line
C19_TrimsAtEveryItem ==
    (norm.pc = "return" /\ norm.fn = "trim_to_question_end")
    => LET text == norm.text
           items == {p \in 1..Len(text) : EnumeratedItemAt(text, p)}
       IN  items # {} => /\ Len(norm.out) < MinOf(items)
                         /\ norm.out = SubSeq(text, 1, Len(norm.out))

\* C20: the text a capture stores is trim_to_question_end of
\* extract_from_first_numbered of combine_chunks of the extracted text
C20_AllThreeStages ==
    (norm.pc = "return" /\ norm.fn = "heuristics")
    => norm.out = trim_to_question_end(
                     extract_from_first_numbered(combine_chunks(<<norm.text>>)))

\* frame 2 was kept and every later frame captured so far is a duplicate
DuplicateTail ==
    /\ Len(stitch.log) >= 3
    /\ stitch.log[2] = "kept"
    /\ \A k \in 3..Len(stitch.log) : stitch.log[k] = "duplicate"

\* C17 as stated: when frame 2 is kept and the frames after it are
\* duplicates, at most one screenshot is taken after frame 2 and the loop
\* ends before max_scrolls iterations
C17_HaltsAfterOneMoreAttempt ==
    DuplicateTail
    => /\ Len(stitch.log) <= 3
       /\ stitch.pc # "loop" => Len(stitch.log) < stitch.max_scrolls

\* C17: when frame 2 is kept and frames 3 and 4 are duplicates, the loop has
\* ended with frame 4: two screenshots after frame 2 and never a fifth, the
\* two kept frames being frames 1 and 2
C17_HaltsAfterTwoDuplicates ==
    (DuplicateTail /\ Len(stitch.log) >= 4)
    => /\ Len(stitch.log) = 4
       /\ stitch.pc # "loop"
       /\ stitch.i = 3
       /\ Len(stitch.imgs) = 2

\* a call with max_scrolls = 5 has returned after frames 1 and 2 were kept
\* and frames 3 and 4 were duplicates
C17_Witness ==
    /\ stitch.pc = "done" /\ stitch.max_scrolls = 5
    /\ stitch.log = <<"kept", "kept", "duplicate", "duplicate">>
    /\ stitch.result = "out_path"

\* C18: the canvas is as high as the kept frames together and as wide as the
\* widest; the frames are pasted in capture order at x = 0, the first at
\* y = 0, each next one where the one before ends, the last ending at the
\* bottom of the canvas
C18_StitchedCanvas ==
    (stitch.pc \in {"save", "done"} /\ stitch.imgs # <<>>)
    => LET imgs == stitch.imgs
           canvas == stitch.canvas
           n == Len(imgs)
       IN  /\ Len(canvas.pastes) = n
           /\ canvas.pastes[1].y = 0
           /\ \A k \in 1..n : canvas.pastes[k].x = 0
           /\ \A k \in 1..(n - 1) :
                 canvas.pastes[k + 1].y = canvas.pastes[k].y + imgs[k].height
           /\ canvas.pastes[n].y + imgs[n].height = canvas.height
           /\ \A k \in 1..n : imgs[k].width <= canvas.width
           /\ \E k \in 1..n : imgs[k].width = canvas.width

\* three kept frames of different sizes were stitched
C18_Witness ==
    /\ stitch.pc = "save" /\ Len(stitch.imgs) = 3
    /\ stitch.imgs[1].width = 1 /\ stitch.imgs[2].width = 2
    /\ stitch.imgs[1].height = 4 /\ stitch.imgs[2].height = 2
    /\ stitch.canvas.height = 7 /\ stitch.canvas.width = 2

\* C12: a capture run or a POST /send_image that entered the extraction
\* step with its image file has ended without leaving that file behind,
\* whatever the outcome of the extraction
C12_ImageDeletedAfterExtraction ==
    \A r \in Runs :
       (disk.runs[r].pc = "ended" /\ disk.runs[r].entered)
       => \A f \in disk.files : f.owner # r

\* a POST /send_image whose extraction timed out has ended, its file gone
C12_Witness ==
    \E r \in Runs :
       /\ disk.runs[r].op = "send_image" /\ disk.runs[r].pc = "ended"
       /\ disk.runs[r].entered /\ disk.runs[r].outcome = "timeout"
       /\ ~IsFile(disk.files, disk.runs[r].path)

\* C21: with AUTO_TYPE_ON_CAPTURE, the replay thread a successful capture
\* started types the text that this capture wrote to the store
C21_ReplaysCapturedText ==
    \A j \in Workers :
       (paste[j].by = "capture" /\ paste[j].pc = "type")
       => paste[j].text = paste[j].expect

\* the number of screenshots kept so far
KeptCount == Cardinality({k \in DOMAIN stitch.log : stitch.log[k] = "kept"})

\* C22: when pyautogui.screenshot or the page-down key press fails after at
\* least one frame was kept, the loop is left at once (no further screenshot
\* or key press), every kept frame is still held, and the call goes on to
\* stitch all of them and to save the result: it does not return None
\* without having stitched
C22_FailureKeepsFrames ==
    (stitch.stop \in {"screenshot", "pagedown"} /\ stitch.imgs # <<>>)
    => /\ stitch.pc \in {"stitch", "save", "done"}
       /\ stitch.shots = Len(stitch.log) + (IF stitch.stop = "screenshot" THEN 1 ELSE 0)
       /\ stitch.scrolls = stitch.i + (IF stitch.stop = "pagedown" THEN 1 ELSE 0)
       /\ Len(stitch.imgs) = KeptCount
       /\ stitch.pc \in {"save", "done"} =>
             /\ Len(stitch.canvas.pastes) = Len(stitch.imgs)
             /\ stitch.canvas.height = SumHeights(stitch.imgs, Len(stitch.imgs))

\* the third screenshot failed after two frames were kept, and the call has
\* returned the path of the image stitched from both
C22_Witness ==
    /\ stitch.stop = "screenshot" /\ stitch.pc = "done"
    /\ stitch.log = <<"kept", "kept">> /\ stitch.shots = 3
    /\ Len(stitch.canvas.pastes) = 2 /\ stitch.result = "out_path"

\* the frame the latest screenshot was compared with: the last frame kept
\* before it
KeptBeforeLast ==
    LET n == Len(stitch.imgs)
    IN  IF stitch.log[Len(stitch.log)] = "kept" THEN SubSeq(stitch.imgs, 1, n - 1)
        ELSE stitch.imgs

\* the latest screenshot repeats the frame prev: the bottom strip of prev
\* (half its height, at most 300 rows) and the top strip of the screenshot
\* have the same non-empty size and more than 95% of their bytes agree
LastRepeats(prev) ==
    LET strip == IF prev.height \div 2 < 300 THEN prev.height \div 2 ELSE 300
    IN  /\ strip > 0
        /\ stitch.last.height >= strip
        /\ stitch.last.similarity = "high"

\* C23: a call that kept no frame returns None without stitching or saving
\* anything, a path is returned only with at least one kept frame, and the
\* latest screenshot was kept exactly when it was the first one taken or
\* did not repeat the last frame kept before it
C23_ImageOnlyFromKeptFrames ==
    /\ (stitch.pc = "done" /\ stitch.imgs = <<>>)
          => stitch.result = "None" /\ stitch.canvas = NoCanvas
    /\ stitch.pc = "save" => stitch.imgs # <<>>
    /\ stitch.result = "out_path" => stitch.imgs # <<>> /\ stitch.canvas # NoCanvas
    /\ stitch.log # <<>> =>
          LET kept == stitch.log[Len(stitch.log)] = "kept"
              before == KeptBeforeLast
          IN  /\ kept <=> (Len(stitch.log) = 1 \/ ~LastRepeats(before[Len(before)]))
              /\ kept => stitch.imgs[Len(stitch.imgs)].height = stitch.last.height
              /\ Len(stitch.imgs) = KeptCount

\* the first screenshot failed: the call has returned None with nothing kept
C23_Witness ==
    /\ stitch.pc = "done" /\ stitch.imgs = <<>> /\ stitch.shots = 1
    /\ stitch.result = "None" /\ stitch.canvas = NoCanvas

\* C24: a call takes at most max_scrolls screenshots and presses page down
\* at most max_scrolls times, presses no key once consecutive_duplicates has
\* reached max_duplicates, and always comes to the 'if not imgs' step and
\* returns, whatever the screenshots give
C24_SessionTerminates ==
    /\ [](/\ stitch.shots <= stitch.max_scrolls
          /\ stitch.scrolls <= stitch.max_scrolls
          /\ stitch.consecutive_duplicates >= max_duplicates => stitch.pc # "loop")
    /\ [][stitch.consecutive_duplicates >= max_duplicates
             => /\ stitch'.scrolls = stitch.scrolls
                /\ stitch'.shots = stitch.shots]_vars
    /\ <>(stitch.pc = "stitch")
    /\ <>(stitch.pc = "done")

\* a call with max_scrolls = 5 has returned after five screenshots and five
\* key presses
C24_Witness ==
    /\ stitch.pc = "done" /\ stitch.max_scrolls = 5
    /\ stitch.shots = 5 /\ stitch.scrolls = 5 /\ stitch.stop = "range"

\* C25: the image file a capture run or a POST /send_image has saved is
\* still there, as that operation wrote it, until its extraction step is
\* over: no other operation's cleanup deletes it and no other operation's
\* save replaces it
C25_ImageKeptUntilExtracted ==
    \A r \in Runs :
       disk.runs[r].pc \in {"check", "extract"}
       => \E f \in disk.files : NameOf(f) = disk.runs[r].path /\ f.owner = r

\* C26: a POST to a path other than /trigger_capture, /send_text and
\* /send_image is answered 404, writes nothing to the store and starts no
\* thread
C26_UnknownPostIs404 ==
    (http.method = "POST" /\ http.path = "/unknown" /\ http.pc = "respond")
    => /\ http.status = 404
       /\ ~http.wrote /\ ~http.spawned
       /\ last_captured_text = lastWrite

\* sub occurs in text as a run of consecutive characters
IsSubstring(sub, text) ==
    \E a \in 1..(Len(text) + 1) : SubSeq(text, a, a + Len(sub) - 1) = sub

\* C27: the heuristics of a capture turn a non-empty extracted text into a
\* non-empty text that is a contiguous part of it: the result is the input
\* or the output of a stage, and never the empty output of a stage, so the
\* check 'empty after heuristics' cannot fail
C27_HeuristicsKeepText ==
    (norm.pc = "return" /\ norm.fn = "heuristics")
    => LET extracted == extract_from_first_numbered(norm.text)
       IN  /\ Truthy(norm.text)
           /\ Truthy(norm.out)
           /\ CaptureHasText(norm.out)
           /\ IsSubstring(norm.out, norm.text)
           /\ norm.out \in {norm.text, extracted, trim_to_question_end(norm.text),
                            trim_to_question_end(extracted)}

\* the heuristics were applied to a text that trim_to_question_end cuts
\* down to nothing, and the text was kept as it was
C27_Witness ==
    /\ norm.pc = "return" /\ norm.fn = "heuristics"
    /\ norm.text = LineAnswer
    /\ trim_to_question_end(norm.text) = NoText
    /\ norm.out = norm.text

====
